---- MODULE Spec2Model ----
(***************************************************************************)
(* A model of the panorama reality viewer (src/panorama-reality/reality.ts)*)
(*                                                                         *)
(* JavaScript values are encoded as follows.  An optional value is a       *)
(* sequence of length at most one: <<>> is `undefined`, <<v>> is v.  An    *)
(* object with identity (a Panorama entry, its entity, its texture         *)
(* promise) carries the number of the loadPanorama call that created it.   *)
(* Time is counted in units of 500 ms, opacity in hundredths.              *)
(***************************************************************************)
EXTENDS Integers, Sequences, FiniteSets, TLC

VARIABLES
    panoramas,      \* the Map url -> Panorama (a function on the registered urls)
    currentPano,    \* <<>> until the first successful show, then <<Panorama>>
    currentSphere,  \* index of the active (incoming) sphere
    panoSpheres,    \* the two meshes with their materials
    virtualEye,     \* the virtual eye entity: position (anchor) and orientation
    tweens,         \* TWEEN's list of running tweens
    loads,          \* per loadPanorama call: fetch, texture promise, reply promise
    nShows,         \* number of successful showPanorama calls so far
    last            \* the handler that ran last and how it ended

vars == <<panoramas, currentPano, currentSphere, panoSpheres, virtualEye,
          tweens, loads, nShows, last>>

----------------------------------------------------------------------------
(* Bounds of the model *)

MaxLoads == 2       \* loadPanorama calls that get as far as starting a fetch
MaxShows == 3       \* successful showPanorama calls

(* Program constants *)

Opaque == 100       \* opacity 1

(* The default duration of a TWEEN.Tween (1000 ms), used when to() gets none *)
DefaultDuration == 2

----------------------------------------------------------------------------
(* JavaScript helpers *)

Undefined == <<>>

\* Argon.Cesium.defined(v)
defined(v) == v # Undefined

\* !v for an optional string: undefined and '' are falsy
Falsy(s) == s = Undefined \/ s = <<"">>

\* (v || d) for an optional number
OrElse(v, d) == IF v = Undefined \/ v = <<0>> THEN d ELSE v[1]

\* to(properties, duration): a duration that is undefined keeps the default
OrElseDuration(d) == IF d = Undefined THEN DefaultDuration ELSE d[1]

Slots == {0, 1}

----------------------------------------------------------------------------
(* Inputs *)

Urls == {"a", "b"}

\* the url of a message: missing, empty, or a string
UrlArgs == {Undefined, <<"">>} \cup {<<u>> : u \in Urls}

\* PanoramaInfo messages: every longitude/latitude combination for "a",
\* with and without a geo anchor for "b", and the ones without a usable url
PanoInfo(url, lon, lat, off) ==
    [url |-> url, longitude |-> lon, latitude |-> lat, height |-> Undefined,
     offsetDegrees |-> off]

\* messages without a usable url
BadInfos ==
    {PanoInfo(<<"">>, <<10>>, <<20>>, Undefined),
     PanoInfo(Undefined, Undefined, Undefined, Undefined)}

\* every longitude/latitude combination
GeoInfos ==
    {PanoInfo(<<"a">>, lon, lat, Undefined) : lon \in {Undefined, <<10>>},
                                              lat \in {Undefined, <<20>>}}

\* two panoramas without a geo anchor, one with a yaw offset
PlainInfos ==
    {PanoInfo(<<"a">>, Undefined, Undefined, Undefined),
     PanoInfo(<<"b">>, Undefined, Undefined, <<90>>)}

PanoInfos == GeoInfos \cup PlainInfos \cup BadInfos

----------------------------------------------------------------------------
(* Initial state: lines 62-80 *)

InitMaterial == [map |-> Undefined, opacity |-> Opaque]

InitMesh == [material |-> InitMaterial, scale |-> <<10, 10, 10>>,
             rotationY |-> 0, renderOrder |-> 0]

Init ==
    /\ panoramas = <<>>
    /\ currentPano = Undefined
    /\ currentSphere = 0
    /\ panoSpheres = [i \in Slots |-> InitMesh]
    /\ virtualEye = [position |-> Undefined,
                     orientation |-> [base |-> "initial", yaw |-> 0]]
    /\ tweens = <<>>
    /\ loads = <<>>
    /\ nShows = 0
    /\ last = [op |-> "init", url |-> Undefined, threw |-> FALSE]

\* a handler that throws: nothing it did before the throw changed the state
Throw(op, url) ==
    /\ last' = [op |-> op, url |-> url, threw |-> TRUE]
    /\ UNCHANGED <<panoramas, currentPano, currentSphere, panoSpheres,
                   virtualEye, tweens, loads, nShows>>

Return(op, url) == last' = [op |-> op, url |-> url, threw |-> FALSE]

----------------------------------------------------------------------------
(* The Map of panoramas *)

has(map, key) == key \in DOMAIN map

Map_set(map, key, value) ==
    [k \in (DOMAIN map) \cup {key} |-> IF k = key THEN value ELSE map[k]]

Map_delete(map, key) == [k \in (DOMAIN map) \ {key} |-> map[k]]

----------------------------------------------------------------------------
(* loadPanorama: lines 205-248 *)

\* a variant that tests for a missing url only, and lets an empty one pass
loadPanorama_urlUndefined(pano) == pano.url = Undefined

\* line 207
loadPanorama_urlMissing(pano) == Falsy(pano.url)

\* lines 212-213: both operands test the longitude
loadPanorama_hasGeo(pano) == defined(pano.longitude) /\ defined(pano.longitude)

\* lines 211-224: the entity of a new Panorama; Cartesian3.fromDegrees of a
\* missing latitude is a NaN position
loadPanorama_entity(id, pano) ==
    IF loadPanorama_hasGeo(pano)
    THEN [id |-> id,
          position |-> <<[longitude |-> pano.longitude,
                          latitude |-> pano.latitude,
                          height |-> OrElse(pano.height, 0)]>>,
          orientation |-> <<"headingPitchRoll(0,0,0)">>]
    ELSE [id |-> id, position |-> Undefined, orientation |-> Undefined]

\* lines 226-231 and 247: the fetch started by loader.load (only an onLoad
\* callback is passed), the texture promise and the promise the handler returns
NewLoad == [fetch |-> "loading", texture |-> "pending", callbacks |-> <<>>,
            reply |-> "pending"]

loadPanorama(pano, cesiumDebug) ==
    IF loadPanorama_urlMissing(pano)
    THEN Throw("loadPanorama", pano.url)
    ELSE IF /\ loadPanorama_hasGeo(pano)
            /\ ~defined(pano.latitude)
            /\ cesiumDebug
    THEN \* a Cesium built with its developer checks raises a DeveloperError in
         \* Cartesian3.fromDegrees(longitude, undefined); one built without
         \* them computes NaN
         Throw("loadPanorama", pano.url)
    ELSE /\ Len(loads) < MaxLoads
         /\ LET id == Len(loads) + 1 IN
            /\ loads' = Append(loads, NewLoad)
            /\ panoramas' = Map_set(panoramas, pano.url[1],
                   [id |-> id,
                    url |-> pano.url[1],
                    longitude |-> pano.longitude,
                    latitude |-> pano.latitude,
                    height |-> pano.height,
                    offsetDegrees |-> pano.offsetDegrees,
                    entity |-> loadPanorama_entity(id, pano)])
         /\ Return("loadPanorama", pano.url)
         /\ UNCHANGED <<currentPano, currentSphere, panoSpheres, virtualEye,
                        tweens, nShows>>

----------------------------------------------------------------------------
(* deletePanorama: lines 249-251 *)

\* a variant that rejects a url that is not registered
deletePanorama_strict(url) ==
    IF defined(url) /\ has(panoramas, url[1])
    THEN /\ panoramas' = Map_delete(panoramas, url[1])
         /\ Return("deletePanorama", url)
         /\ UNCHANGED <<currentPano, currentSphere, panoSpheres, virtualEye,
                        tweens, loads, nShows>>
    ELSE Throw("deletePanorama", url)

\* a variant that drops the current panorama when its url is deleted
deletePanorama_clearsCurrent(url) ==
    /\ panoramas' = (IF defined(url) THEN Map_delete(panoramas, url[1])
                     ELSE panoramas)
    /\ currentPano' = (IF defined(url) /\ defined(currentPano)
                          /\ currentPano[1].url = url[1]
                       THEN Undefined ELSE currentPano)
    /\ Return("deletePanorama", url)
    /\ UNCHANGED <<currentSphere, panoSpheres, virtualEye, tweens, loads, nShows>>

deletePanorama(url) ==
    /\ panoramas' = (IF defined(url) THEN Map_delete(panoramas, url[1])
                     ELSE panoramas)
    /\ Return("deletePanorama", url)
    /\ UNCHANGED <<currentPano, currentSphere, panoSpheres, virtualEye,
                   tweens, loads, nShows>>

----------------------------------------------------------------------------
(* resolve: lines 321-326, applied to TWEEN.Easing *)

\* The part of the TWEEN.Easing namespace the inputs reach: what a path of
\* property names (the easing name split at '.') leads to.
TWEEN_Easing(path) ==
    IF path \in {<<>>, <<"Linear">>, <<"Quadratic">>} THEN "object"
    ELSE IF path \in {<<"Linear", "None">>, <<"Quadratic", "In">>} THEN "function"
    ELSE "undefined"

NoValue == [def |-> FALSE, at |-> <<>>]

\* line 324 with safe = true: prev ? prev[curr] : undefined
resolve_step(prev, curr) ==
    IF ~prev.def THEN NoValue
    ELSE IF TWEEN_Easing(Append(prev.at, curr)) = "undefined" THEN NoValue
    ELSE [def |-> TRUE, at |-> Append(prev.at, curr)]

RECURSIVE resolve_reduce(_, _)
resolve_reduce(prev, path) ==
    IF path = <<>> THEN prev
    ELSE resolve_reduce(resolve_step(prev, Head(path)), Tail(path))

\* path is the optional easing name, already split at '.'; <<>> is a missing
\* or empty name (line 322)
resolve(path) ==
    IF path = <<>> THEN NoValue
    ELSE resolve_reduce([def |-> TRUE, at |-> <<>>], path)

\* line 270: resolve(...) || TWEEN.Easing.Linear.None
showPanorama_easing(transition) ==
    LET name == IF defined(transition) THEN transition[1].easing ELSE Undefined
        found == resolve(name)
    IN IF found.def THEN found ELSE [def |-> TRUE, at |-> <<"Linear", "None">>]

----------------------------------------------------------------------------
(* TWEEN *)

\* a variant that leaves the running tweens in the list
TWEEN_keepAll(list) == list

TWEEN_removeAll(list) == <<>>

\* new TWEEN.Tween(object).to({opacity: 0}, duration).easing(easing).start():
\* start() records the opacity the object has at that moment.  A tween that
\* is still in the list when a later one starts is marked superseded.
TWEEN_start(list, slot, opacity, duration, easing) ==
    Append([i \in 1..Len(list) |-> [list[i] EXCEPT !.superseded = TRUE]],
           [slot |-> slot, valuesStart |-> opacity,
            duration |-> OrElseDuration(duration),
            easing |-> easing.at, elapsed |-> 0, superseded |-> FALSE])

\* the time a tween has been running, which matters up to its duration only
Tween_advance(tw, dt) ==
    LET cap == IF tw.duration = 0 THEN 1 ELSE tw.duration
        e == tw.elapsed + dt
    IN [tw EXCEPT !.elapsed = IF e > cap THEN cap ELSE e]

\* opacity after the easing function was applied to elapsed = num / den,
\* interpolating from valuesStart to 0
Tween_value(tw, num, den) ==
    IF tw.easing = <<"Quadratic", "In">>
    THEN tw.valuesStart - ((tw.valuesStart * num * num) \div (den * den))
    ELSE tw.valuesStart - ((tw.valuesStart * num) \div den)

\* Tween.update(time).  A tween whose easing is not a function (the namespace
\* TWEEN.Easing.Linear, say) raises a TypeError when it is called.  A tween of
\* duration 0 updated at its very start time divides 0 by 0: tween.js either
\* treats a zero duration as finished (zeroIsDone) or writes NaN (encoded -1)
\* and finishes at the next later time.
Tween_update(tw, zeroIsDone) ==
    IF TWEEN_Easing(tw.easing) # "function"
    THEN [threw |-> TRUE, done |-> FALSE, opacity |-> 0]
    ELSE IF tw.duration = 0
    THEN IF tw.elapsed > 0 \/ zeroIsDone
         THEN [threw |-> FALSE, done |-> TRUE, opacity |-> Tween_value(tw, 1, 1)]
         ELSE [threw |-> FALSE, done |-> FALSE, opacity |-> -1]
    ELSE [threw |-> FALSE, done |-> tw.elapsed = tw.duration,
          opacity |-> Tween_value(tw, tw.elapsed, tw.duration)]

\* TWEEN.update(): every tween of the list in order; a finished one leaves the
\* list; an exception ends the walk with the rest of the list untouched
RECURSIVE TWEEN_update(_, _, _, _)
TWEEN_update(list, kept, spheres, zeroIsDone) ==
    IF list = <<>> THEN [tweens |-> kept, spheres |-> spheres, threw |-> FALSE]
    ELSE LET tw == Head(list)
             r == Tween_update(tw, zeroIsDone)
         IN IF r.threw
            THEN [tweens |-> kept \o list, spheres |-> spheres, threw |-> TRUE]
            ELSE TWEEN_update(Tail(list),
                     IF r.done THEN kept ELSE Append(kept, tw),
                     [spheres EXCEPT ![tw.slot].material.opacity = r.opacity],
                     zeroIsDone)

----------------------------------------------------------------------------
(* updateEvent: lines 166-168 *)

updateEvent(dt, zeroIsDone) ==
    LET r == TWEEN_update([i \in 1..Len(tweens) |-> Tween_advance(tweens[i], dt)],
                          <<>>, panoSpheres, zeroIsDone)
    IN /\ tweens' = r.tweens
       /\ panoSpheres' = r.spheres
       /\ last' = [op |-> "updateEvent", url |-> Undefined, threw |-> r.threw]
       /\ UNCHANGED <<panoramas, currentPano, currentSphere, virtualEye, loads,
                      nShows>>

----------------------------------------------------------------------------
(* The texture loader's callbacks: lines 226-231, 247, 293-296 *)

\* the callbacks registered with then() at line 293 run in order and bind the
\* texture to the material each was created for
RECURSIVE BindTexture(_, _, _)
BindTexture(spheres, id, callbacks) ==
    IF callbacks = <<>> THEN spheres
    ELSE BindTexture([spheres EXCEPT ![Head(callbacks)].material.map = <<id>>],
                     id, Tail(callbacks))

\* the fetch of load id succeeds: the onLoad callback resolves the texture
\* promise, which fulfils the promise the handler returned
loader_onLoad(id) ==
    /\ id \in 1..Len(loads)
    /\ loads[id].fetch = "loading"
    /\ loads' = [loads EXCEPT ![id] = [fetch |-> "loaded", texture |-> "fulfilled",
                                       callbacks |-> <<>>, reply |-> "fulfilled"]]
    /\ panoSpheres' = BindTexture(panoSpheres, id, loads[id].callbacks)
    /\ Return("onLoad", Undefined)
    /\ UNCHANGED <<panoramas, currentPano, currentSphere, virtualEye, tweens,
                   nShows>>

\* the fetch of load id fails: loader.load was given no onError callback
loader_onError(id) ==
    /\ id \in 1..Len(loads)
    /\ loads[id].fetch = "loading"
    /\ loads' = [loads EXCEPT ![id].fetch = "error"]
    /\ Return("onError", Undefined)
    /\ UNCHANGED <<panoramas, currentPano, currentSphere, panoSpheres,
                   virtualEye, tweens, nShows>>

----------------------------------------------------------------------------
(* showPanorama: lines 252-254 and 267-319 *)

\* the time since the tween was started or last updated (x 500 ms)
Elapsed == {0, 1, 2}

\* transition arguments: none; an easing name that resolves to nothing; a
\* known easing with a duration; a zero duration; and the name of the
\* namespace TWEEN.Easing.Linear, which resolves to an object
Transition(easing, duration) == <<[easing |-> easing, duration |-> duration]>>

Transitions ==
    {Undefined,
     Transition(<<"Bogus">>, Undefined),
     Transition(<<"Quadratic", "In">>, <<1>>),
     Transition(<<"Linear", "None">>, <<0>>),
     Transition(<<"Linear">>, <<0>>)}

ShowOptions == [url : UrlArgs, transition : Transitions]

\* a variant that assigns currentPano before it tests the lookup
showPanorama_notFound_late(url) ==
    /\ currentPano' = Undefined
    /\ last' = [op |-> "showPanorama", url |-> url, threw |-> TRUE]
    /\ UNCHANGED <<panoramas, currentSphere, panoSpheres, virtualEye, tweens,
                   loads, nShows>>

\* a variant that looks the url up after line 312 has removed the tweens
showPanorama_notFound_cancels(url) ==
    /\ tweens' = <<>>
    /\ last' = [op |-> "showPanorama", url |-> url, threw |-> TRUE]
    /\ UNCHANGED <<panoramas, currentPano, currentSphere, panoSpheres,
                   virtualEye, loads, nShows>>

\* line 277: the throw comes before currentPano is assigned at line 278
showPanorama_notFound(url) == Throw("showPanorama", url)

\* a variant that gives each mesh the other one's scale
showPanorama_spheres_swapped(panoIn, out, in) ==
    [i \in Slots |->
        IF i = in
        THEN [material |-> [map |-> IF loads[panoIn.id].texture = "fulfilled"
                                    THEN <<panoIn.id>> ELSE Undefined,
                            opacity |-> Opaque],
              scale |-> <<-9, 9, 9>>,
              rotationY |-> OrElse(panoIn.offsetDegrees, 0),
              renderOrder |-> 0]
        ELSE [panoSpheres[i] EXCEPT !.scale = <<-10, 10, 10>>, !.renderOrder = 1]]

\* lines 283-309: the meshes after the incoming one was reset and both posed;
\* a texture promise that is already fulfilled runs its then() callback as soon
\* as the handler returns
showPanorama_spheres(panoIn, out, in) ==
    [i \in Slots |->
        IF i = in
        THEN [material |-> [map |-> IF loads[panoIn.id].texture = "fulfilled"
                                    THEN <<panoIn.id>> ELSE Undefined,
                            opacity |-> Opaque],
              scale |-> <<-10, 10, 10>>,
              rotationY |-> OrElse(panoIn.offsetDegrees, 0),
              renderOrder |-> 0]
        ELSE [panoSpheres[i] EXCEPT !.scale = <<-9, 9, 9>>, !.renderOrder = 1]]

showPanorama(options) ==
    LET url == options.url
        transition == options.transition
        easing == showPanorama_easing(transition)
    IN IF Falsy(url) THEN Throw("showPanorama", url)
       ELSE IF ~easing.def THEN Throw("showPanorama", url)
       ELSE IF ~has(panoramas, url[1]) THEN showPanorama_notFound(url)
       ELSE
        /\ nShows < MaxShows
        /\ LET panoIn == panoramas[url[1]]
               out == currentSphere
               in == (currentSphere + 1) % 2
               posed == showPanorama_spheres(panoIn, out, in)
           IN /\ currentPano' = <<panoIn>>
              /\ virtualEye' = [virtualEye EXCEPT !.position = <<panoIn.entity.id>>]
              /\ currentSphere' = in
              /\ loads' = IF loads[panoIn.id].texture = "fulfilled" THEN loads
                          ELSE [loads EXCEPT ![panoIn.id].callbacks = Append(@, in)]
              \* lines 312-316: start() reads the opacity before line 317 sets it
              /\ tweens' = TWEEN_start(TWEEN_removeAll(tweens), out,
                               posed[out].material.opacity,
                               IF defined(transition) THEN transition[1].duration
                               ELSE Undefined,
                               easing)
              /\ panoSpheres' = [posed EXCEPT ![out].material.opacity = Opaque]
        /\ nShows' = nShows + 1
        \* the record of the call keeps the easing name that was asked for
        \* and the number of tweens that line 312 removed
        /\ last' = [op |-> "showPanorama", url |-> url, threw |-> FALSE,
                    easing |-> IF defined(transition) THEN transition[1].easing
                               ELSE Undefined,
                    cancelled |-> Len(tweens)]
        /\ UNCHANGED panoramas

----------------------------------------------------------------------------

(* frameStateEvent: lines 96-160 *)

\* Angles are counted in sixteenths of pi.  Wheel and pinch deltas are counted
\* in the distance that changes the field of view by pi/16 (diff * 0.02), and
\* a drag in widths of the viewport.
PI == 16

Math_min(a, b) == IF a < b THEN a ELSE b
Math_max(a, b) == IF a > b THEN a ELSE b

\* a variant that keeps the lower limit of the zoom and drops the upper one
ZoomFov_noUpper(fov, diff) == Math_max(fov - diff, PI \div 8)

\* lines 121 and 127
ZoomFov(fov, diff) ==
    Math_min(Math_max(fov - diff, PI \div 8), PI - (PI \div 8))

\* lines 142-143: width / height, or 1 when that is zero, infinite or NaN
SubviewAspect(viewport) ==
    IF viewport.height = 0 \/ viewport.width = 0 THEN <<1, 1>>
    ELSE <<viewport.width, viewport.height>>

\* the projection the host hands in with sub-view i of a frame state
HostProjection(i) == [fov |-> 6, aspect |-> <<16, 9>>, eye |-> i]

\* lines 115-128: the frustum decomposed from the first sub-view's projection,
\* with the view's field of view and then the wheel and pinch zoom
FusedFov(fs) ==
    LET fov0 == fs.viewFov
        fov1 == IF defined(fs.wheel) THEN ZoomFov(fov0, fs.wheel[1]) ELSE fov0
    IN IF defined(fs.pinch) THEN ZoomFov(fov1, fs.pinch[1]) ELSE fov1

\* lines 141-145
FusedProjection(fs, i) ==
    [HostProjection(1) EXCEPT !.fov = FusedFov(fs),
                              !.aspect = SubviewAspect(fs.subviews[i])]

\* a variant that overrides the projection in strict mode too
PublishedProjection_always(fs, i) == FusedProjection(fs, i)

\* lines 98 and 114: a strict frame state keeps the sub-view's own projection
PublishedProjection(fs, i) ==
    IF fs.strict THEN HostProjection(i) ELSE FusedProjection(fs, i)

\* lines 132-138: the orientation is kept as base * (rotation about Y by yaw)
DragOrientation(orientation, fs) ==
    [orientation EXCEPT !.yaw = (@ + FusedFov(fs) * fs.drag[1]) % (2 * PI)]

\* a variant that lets a drag act whether or not the device is sensed
Dragging_any(fs) == defined(fs.drag)

\* line 130
Dragging(fs) == ~defined(fs.device) /\ defined(fs.drag)

\* what is kept of the tick's input for the record of the tick
FrameInput(fs) ==
    [device |-> fs.device, strict |-> fs.strict, viewFov |-> fs.viewFov,
     wheel |-> defined(fs.wheel), pinch |-> defined(fs.pinch),
     drag |-> defined(fs.drag)]

frameStateEvent(fs) ==
    LET sensed == IF defined(fs.device)
                  THEN [base |-> fs.device[1], yaw |-> 0]
                  ELSE virtualEye.orientation
        moved == IF ~fs.strict /\ Dragging(fs)
                 THEN DragOrientation(sensed, fs) ELSE sensed
        published == [i \in 1..Len(fs.subviews) |-> PublishedProjection(fs, i)]
    IN IF ~fs.strict /\ Dragging(fs) /\ ~defined(currentPano)
       THEN \* line 132: currentPano.entity of undefined raises a TypeError
            /\ last' = [op |-> "frameStateEvent", url |-> Undefined,
                        threw |-> TRUE, input |-> FrameInput(fs),
                        submitted |-> <<>>]
            /\ UNCHANGED <<panoramas, currentPano, currentSphere, panoSpheres,
                           virtualEye, tweens, loads, nShows>>
       ELSE /\ virtualEye' = [virtualEye EXCEPT !.orientation = moved]
            /\ last' = [op |-> "frameStateEvent", url |-> Undefined,
                        threw |-> FALSE, input |-> FrameInput(fs),
                        submitted |-> <<[subviews |-> published,
                                         eye |-> virtualEye'.orientation,
                                         anchor |-> virtualEye.position]>>]
            /\ UNCHANGED <<panoramas, currentPano, currentSphere, panoSpheres,
                           tweens, loads, nShows>>

\* what a tick brings: the device orientation (if sensed), the strict flag, the
\* sub-views' viewports, the field of view of the view, and the gestures
Viewport(w, h) == [width |-> w, height |-> h]

\* the view as the host has it: a field of view below the zoom range with one
\* sub-view, or one inside the range with two sub-views, one of them empty
HostViews ==
    {[viewFov |-> 1, subviews |-> <<Viewport(4, 3)>>],
     [viewFov |-> 6, subviews |-> <<Viewport(2, 3), Viewport(0, 0)>>]}

FrameStates ==
    {[device |-> device, strict |-> strict, subviews |-> view.subviews,
      viewFov |-> view.viewFov, wheel |-> wheel, pinch |-> pinch,
      drag |-> drag] :
        device \in {Undefined, <<"device">>},
        strict \in BOOLEAN,
        view \in HostViews,
        wheel \in {Undefined, <<-20>>, <<1>>},
        pinch \in {Undefined, <<20>>},
        drag \in {Undefined, <<1>>}}

----------------------------------------------------------------------------

\* Every handler
Next ==
    \/ \E pano \in PanoInfos, cesiumDebug \in BOOLEAN :
           loadPanorama(pano, cesiumDebug)
    \/ \E url \in UrlArgs : deletePanorama(url)
    \/ \E options \in ShowOptions : showPanorama(options)
    \/ \E id \in 1..MaxLoads : loader_onLoad(id)
    \/ \E id \in 1..MaxLoads : loader_onError(id)
    \/ \E dt \in Elapsed, zeroIsDone \in BOOLEAN : updateEvent(dt, zeroIsDone)
    \/ \E fs \in FrameStates : frameStateEvent(fs)

Spec == Init /\ [][Next]_vars

(* The handlers share little state, and Spec is checked through three       *)
(* projections, each with the handlers and the inputs that its part of the  *)
(* state depends on.  A frame tick writes only the eye's orientation, which  *)
(* no command reads; a geo anchor is read by no handler; a failed fetch is,  *)
(* for the transition engine, a fetch that never completes.                  *)

\* The registry: every PanoramaInfo, the fetch outcomes, lookups by show
NextRegistry ==
    \/ \E pano \in PanoInfos, cesiumDebug \in BOOLEAN :
           loadPanorama(pano, cesiumDebug)
    \/ \E url \in UrlArgs : deletePanorama(url)
    \/ \E url \in UrlArgs :
           showPanorama([url |-> url, transition |-> Undefined])
    \/ \E id \in 1..MaxLoads : loader_onLoad(id)
    \/ \E id \in 1..MaxLoads : loader_onError(id)

SpecRegistry == Init /\ [][NextRegistry]_vars

\* The transition engine: panoramas without geo anchors, every transition
NextTransition ==
    \/ \E pano \in PlainInfos : loadPanorama(pano, FALSE)
    \/ \E u \in Urls : deletePanorama(<<u>>)
    \/ \E options \in ShowOptions : showPanorama(options)
    \/ \E id \in 1..MaxLoads : loader_onLoad(id)
    \/ \E dt \in Elapsed, zeroIsDone \in BOOLEAN : updateEvent(dt, zeroIsDone)

SpecTransition == Init /\ [][NextTransition]_vars

\* lines 166-168: the update ticks keep coming, each later than the one before
SpecTransitionFair ==
    /\ SpecTransition
    /\ WF_vars(\E dt \in Elapsed \ {0}, zeroIsDone \in BOOLEAN :
                   updateEvent(dt, zeroIsDone))

\* The frame tick: one panorama to show, every tick input
NextFrame ==
    \/ loadPanorama(PanoInfo(<<"a">>, <<10>>, <<20>>, Undefined), FALSE)
    \/ showPanorama([url |-> <<"a">>, transition |-> Undefined])
    \/ \E fs \in FrameStates : frameStateEvent(fs)

SpecFrame == Init /\ [][NextFrame]_vars
----------------------------------------------------------------------------
(* Properties *)

IsShow(l) == l.op = "showPanorama"

Registered(url) == defined(url) /\ has(panoramas, url[1])

\* C1: showPanorama of a url that is not a key of the registry fails and
\* leaves the current-panorama pointer as it was, unset included.
C1_ShowUnknownKeepsCurrent ==
    [][(IsShow(last') /\ ~Registered(last'.url))
          => (last'.threw /\ currentPano' = currentPano)]_vars

\* a show of an unregistered url has failed while a panorama was current
C1_Witness ==
    /\ IsShow(last) /\ last.threw
    /\ last.url \in {<<u>> : u \in Urls} /\ ~Registered(last.url)
    /\ defined(currentPano)

\* C2: the current-panorama pointer, when set, is the entry stored in the
\* registry under its url.
C2_CurrentIsRegistered ==
    defined(currentPano) =>
        /\ has(panoramas, currentPano[1].url)
        /\ panoramas[currentPano[1].url] = currentPano[1]

\* C3: showPanorama of a registered url with a non-empty easing name that
\* resolves to no easing function fails: a show that succeeds was given no
\* easing name or one that names an easing function.
C3_UnknownEasingFails ==
    [][(IsShow(last') /\ Registered(last'.url) /\ ~last'.threw)
          => (defined(last'.easing)
                 => TWEEN_Easing(last'.easing) = "function")]_vars

\* C4: at most one fade is in TWEEN's list, and it is the one the most recent
\* successful show started; an update tick changes the opacity of no slot but
\* the target of that fade.
C4_OneFade ==
    /\ [](/\ Len(tweens) <= 1
          /\ \A i \in 1..Len(tweens) : ~tweens[i].superseded)
    /\ [][last'.op = "updateEvent" =>
            \A s \in Slots :
                panoSpheres'[s].material.opacity # panoSpheres[s].material.opacity
                    => \E i \in 1..Len(tweens) :
                           tweens[i].slot = s /\ ~tweens[i].superseded]_vars

\* a successful show has removed a fade that was still running
C4_Witness ==
    /\ IsShow(last) /\ ~last.threw /\ last.cancelled = 1
    /\ Len(tweens) = 1

\* C5: while the texture of the panorama shown last is still pending, the
\* incoming slot's material has no texture.
C5_NoTextureBeforeResolution ==
    (defined(currentPano) /\ loads[currentPano[1].id].texture = "pending")
        => panoSpheres[currentSphere].material.map = Undefined

\* C6: a registry entry has a geo-derived anchor exactly if both longitude
\* and latitude were supplied.
C6_AnchorIffBoth ==
    \A u \in DOMAIN panoramas :
        defined(panoramas[u].entity.position)
            <=> (defined(panoramas[u].longitude) /\ defined(panoramas[u].latitude))

\* C7: once the texture fetch has failed, the promise loadPanorama returned
\* is rejected.
C7_FailureRejects ==
    \A id \in 1..Len(loads) :
        loads[id].fetch = "error" => loads[id].reply = "rejected"

\* C8: loadPanorama with a missing or empty url fails, leaves the registry
\* unchanged and starts no texture load.
C8_MissingUrlRejected ==
    [][(last'.op = "loadPanorama" /\ Falsy(last'.url))
          => (last'.threw /\ panoramas' = panoramas /\ loads' = loads)]_vars

\* a load without a url has failed while the registry held an entry
C8_Witness ==
    /\ last.op = "loadPanorama" /\ Falsy(last.url) /\ last.threw
    /\ DOMAIN panoramas # {}

\* C9: deletePanorama never fails; it removes the entry of its url and no
\* other; a second call in a row on the same url changes nothing.
C9_DeleteIdempotent ==
    [][last'.op = "deletePanorama" =>
          /\ ~last'.threw
          /\ DOMAIN panoramas' = DOMAIN panoramas \ {k \in Urls : last'.url = <<k>>}
          /\ \A k \in DOMAIN panoramas' : panoramas'[k] = panoramas[k]
          /\ (last.op = "deletePanorama" /\ last.url = last'.url)
                => panoramas' = panoramas]_vars

\* a delete of a url that is not registered has returned, with another entry
\* still registered
C9_Witness ==
    /\ last.op = "deletePanorama" /\ ~last.threw
    /\ last.url \in {<<u>> : u \in Urls} /\ ~Registered(last.url)
    /\ DOMAIN panoramas # {}

\* C10: every frame tick ends with one frame state submitted.
C10_TickSubmits ==
    last.op = "frameStateEvent" => (~last.threw /\ Len(last.submitted) = 1)

IsTick(l) == l.op = "frameStateEvent"

\* a tick that was not strict and got as far as submitting its frame state
Published(l) == IsTick(l) /\ ~l.input.strict /\ Len(l.submitted) = 1

InZoomRange(fov) == (PI \div 8) <= fov /\ fov <= PI - (PI \div 8)

\* C11 as claimed: in every tick that is not strict the field of view of
\* every published projection lies within [pi/8, pi - pi/8].
C11_FovAlwaysInRange ==
    Published(last) =>
        \A i \in 1..Len(last.submitted[1].subviews) :
            InZoomRange(last.submitted[1].subviews[i].fov)

\* C11 as amended: in a tick that is not strict and has a wheel or a pinch
\* gesture the published field of view lies within [pi/8, pi - pi/8]; in one
\* with neither it is the field of view the view reported, unchanged.
C11_FovInRangeAfterZoom ==
    Published(last) =>
        \A i \in 1..Len(last.submitted[1].subviews) :
            LET fov == last.submitted[1].subviews[i].fov IN
            IF last.input.wheel \/ last.input.pinch
            THEN InZoomRange(fov)
            ELSE fov = last.input.viewFov

\* a tick with both gestures has published, the view's field of view having
\* been outside the range
C11_Witness ==
    /\ Published(last) /\ last.input.wheel /\ last.input.pinch
    /\ ~InZoomRange(last.input.viewFov)

\* C12: a strict tick submits its frame state, and every sub-view's
\* projection in it is the one the host provided for that sub-view.
C12_StrictKeepsProjection ==
    (IsTick(last) /\ last.input.strict) =>
        /\ ~last.threw /\ Len(last.submitted) = 1
        /\ \A i \in 1..Len(last.submitted[1].subviews) :
               last.submitted[1].subviews[i] = HostProjection(i)

\* a strict tick with a zoom and a drag gesture and two sub-views has submitted
C12_Witness ==
    /\ IsTick(last) /\ last.input.strict /\ last.input.wheel /\ last.input.drag
    /\ Len(last.submitted) = 1 /\ Len(last.submitted[1].subviews) = 2

\* C16: a tick that senses the device orientation publishes exactly that
\* orientation, drag or not; a tick changes the eye's orientation only by
\* sensing the device or, the device absent, by a drag.
C16_SensorHasAuthority ==
    /\ []((IsTick(last) /\ defined(last.input.device)) =>
            /\ ~last.threw /\ Len(last.submitted) = 1
            /\ last.submitted[1].eye = [base |-> last.input.device[1], yaw |-> 0]
            /\ virtualEye.orientation = last.submitted[1].eye)
    /\ [][(IsTick(last') /\ virtualEye'.orientation # virtualEye.orientation)
            => \/ defined(last'.input.device)
               \/ (last'.input.drag /\ ~last'.input.strict)]_vars

\* a tick that was not strict has sensed the device while a drag was active
C16_Witness ==
    /\ IsTick(last) /\ defined(last.input.device) /\ last.input.drag
    /\ ~last.input.strict /\ Len(last.submitted) = 1

\* a step in which showPanorama ran to its end
ShowSucceeds == nShows' = nShows + 1

C14_DeleteCurrentKeepsRendering ==
    /\ [][(/\ last'.op = "deletePanorama"
           /\ defined(currentPano)
           /\ last'.url = <<currentPano[1].url>>)
          => /\ ~last'.threw
             /\ ~has(panoramas', currentPano[1].url)
             /\ UNCHANGED <<currentPano, virtualEye, currentSphere,
                            panoSpheres, tweens>>]_vars
    /\ [][last'.op = "onLoad" => ~last'.threw]_vars

\* the only panorama ever registered was shown, then deleted while its fade
\* was running, and then its texture load completed and was bound
C14_Witness ==
    /\ last.op = "onLoad" /\ Len(loads) = 1
    /\ defined(currentPano) /\ ~has(panoramas, currentPano[1].url)
    /\ panoSpheres[currentSphere].material.map = <<1>>
    /\ tweens # <<>>

\* C15: showPanorama on the url that is already current succeeds: it toggles
\* the active slot, resets the incoming material (opacity 1, and no texture
\* until the panorama's texture is available, which is then bound), removes
\* the running fade and starts one on the outgoing slot from opacity 1.
C15_ReshowRestarts ==
    [][(/\ IsShow(last')
        /\ defined(currentPano)
        /\ last'.url = <<currentPano[1].url>>)
       => /\ ~last'.threw
          /\ ShowSucceeds
          /\ currentSphere' = 1 - currentSphere
          /\ currentPano'[1].url = currentPano[1].url
          /\ LET id == currentPano'[1].id
                 material == panoSpheres'[currentSphere'].material
             IN /\ material.opacity = Opaque
                /\ IF loads[id].texture = "fulfilled"
                   THEN material.map = <<id>>
                   ELSE /\ material.map = Undefined
                        /\ \E k \in 1..Len(loads'[id].callbacks) :
                               loads'[id].callbacks[k] = currentSphere'
          /\ last'.cancelled = Len(tweens)
          /\ Len(tweens') = 1
          /\ tweens'[1].slot = currentSphere
          /\ tweens'[1].valuesStart = Opaque
          /\ tweens'[1].elapsed = 0]_vars

\* C17: a fade that is running leads to the state with no fade running and
\* the outgoing slot at opacity 0, update ticks with advancing time going on.
C17_FadeCompletes ==
    (tweens # <<>>) ~>
        (tweens = <<>> /\ panoSpheres[1 - currentSphere].material.opacity = 0)

\* C18: once a panorama was shown, the active slot is opaque in every state,
\* update ticks and the fade that an earlier show started included.
C18_IncomingStaysOpaque ==
    defined(currentPano) => panoSpheres[currentSphere].material.opacity = Opaque

\* an update tick has advanced the fade of the second or a later show part of
\* its way, on the slot that was the incoming one before
C18_Witness ==
    /\ last.op = "updateEvent" /\ ~last.threw /\ nShows >= 2
    /\ Len(tweens) = 1 /\ tweens[1].elapsed > 0
    /\ panoSpheres[1 - currentSphere].material.opacity \in 1..(Opaque - 1)

\* C19, for the active slot: the texture bound to its material, when there is
\* one, is the texture of the current panorama, the one shown into it last.
C19_BoundTextureIsLatest ==
    (defined(currentPano) /\ defined(panoSpheres[currentSphere].material.map))
        => panoSpheres[currentSphere].material.map = <<currentPano[1].id>>

\* C20: a showPanorama call that fails leaves the active slot, both meshes,
\* the eye and the list of running fades as they were.
C20_FailedShowKeepsTransition ==
    [][(IsShow(last') /\ last'.threw)
       => UNCHANGED <<currentSphere, panoSpheres, virtualEye, tweens>>]_vars

\* a url that is not registered was asked for while a fade was running
C20_Witness ==
    /\ IsShow(last) /\ last.threw
    /\ defined(last.url) /\ last.url[1] \in Urls /\ ~has(panoramas, last.url[1])
    /\ Len(tweens) = 1 /\ tweens[1].elapsed = 1

====
